---- MODULE Spec2Model ----
(***************************************************************************)
(* Model of the Redis query cache of Node_Redis-Caching:                   *)
(*   services/cache.js (src/unnamed/part_000): Query.prototype.cache,      *)
(*     the patched Query.prototype.exec (overrideExec) and clearCache;     *)
(*   middlewares/clearCache.js: clearCacheByUserId / afterResponse.        *)
(*                                                                         *)
(* JavaScript runs each handler to its next await in one piece, so every   *)
(* action below is one such run.  All commands travel on the one           *)
(* node_redis connection, which delivers them in the order they were sent  *)
(* to a server that executes one command at a time: a command therefore    *)
(* takes effect in sending order, and the model executes it in the step    *)
(* that sends it.  The reply stays with the sender until the continuation  *)
(* that awaits it runs (HGET), or is never looked at (HSET, DEL).          *)
(***************************************************************************)
EXTENDS Integers, Sequences, FiniteSets, TLC

\* ------------------------------------------------------------------ bounds
MaxPosts == 1        \* documents the write route may insert
MaxListeners == 1    \* 'finish' listeners other middleware may add to a response
MaxTime == 10        \* seconds the clock runs for
\* ------------------------------------------------------- program constants
FailureStatus == 400 \* if (res.statusCode < 400) clearCache(...)
DefaultTTL == 10     \* client.hset(this.hashKey, key, ..., 'EX', 10)

QueryIds == {1, 2}   \* query objects alive at the same time
RequestIds == {1}    \* write requests in flight at the same time

\* ------------------------------------------------------------- JS values
\* A JavaScript value that can be passed as options.key / req.user.id.
Str(s) == [t |-> "string", s |-> s]
Undefined == [t |-> "undefined", s |-> ""]

\* User ids are non-empty strings (mongoose's id getter); the routes annotate
\* a query with the id of the user who asks: .cache({ key: req.user.id }).
Users == {Str("u1"), Str("u2")}
KeyVals == Users

Truthy(val) ==
  CASE val.t = "string" -> val.s # ""
    [] val.t = "number" -> val.s # "0"
    [] val.t = "boolean" -> val.s = "true"
    [] OTHER -> FALSE

Quote(s) == "\"" \o s \o "\""

\* JSON.stringify of a primitive; for undefined it returns undefined, which
\* node_redis sends as the string "undefined".
JSONStringifyValue(val) ==
  CASE val.t = "string" -> Quote(val.s)
    [] val.t = "undefined" -> "undefined"
    [] OTHER -> val.s

\* options.key || ''
KeyOrEmpty(val) == IF Truthy(val) THEN val ELSE Str("")

\* ------------------------------------------------------ query descriptors
\* getQuery() returns the filter conditions in insertion order; the
\* operation (find / findOne) and the options (limit: 0 for none) are part
\* of the query but not of getQuery().
FilterU1 == << <<"_user", "u1">> >>
Descriptors ==
  { [op |-> "find", filter |-> FilterU1, coll |-> "blogs", limit |-> 0],
    [op |-> "findOne", filter |-> FilterU1, coll |-> "blogs", limit |-> 0] }

HasField(obj, f) == \E i \in 1..Len(obj) : obj[i][1] = f

\* { ...obj, [f]: v } : an existing property keeps its place, a new one is
\* appended.
SetField(obj, f, v) ==
  IF HasField(obj, f)
  THEN [i \in 1..Len(obj) |-> IF obj[i][1] = f THEN <<f, v>> ELSE obj[i]]
  ELSE Append(obj, <<f, v>>)

RECURSIVE JoinProps(_, _)
JoinProps(obj, i) ==
  IF i > Len(obj) THEN ""
  ELSE (IF i > 1 THEN "," ELSE "")
       \o Quote(obj[i][1]) \o ":" \o Quote(obj[i][2])
       \o JoinProps(obj, i + 1)

\* JSON.stringify of a flat object with string values.
JSONStringifyObject(obj) == "{" \o JoinProps(obj, 1) \o "}"

\* The fingerprint with the collection written first and the conditions
\* spread over it: { collection: name, ...getQuery() }.
FingerprintCollectionFirst(d) ==
  LET rest == SelectSeq(d.filter, LAMBDA p : p[1] # "collection")
      at == CHOOSE k \in 1..Len(d.filter) : d.filter[k][1] = "collection"
      v == IF HasField(d.filter, "collection") THEN d.filter[at][2] ELSE d.coll
  IN JSONStringifyObject(<< <<"collection", v>> >> \o rest)

\* const key = JSON.stringify({ ...this.getQuery(), collection: name })
Fingerprint(d) == JSONStringifyObject(SetField(d.filter, "collection", d.coll))

\* ------------------------------------------------------------- results
\* What exec resolves to: null, one document, an array of documents; v holds
\* the _id of each document.  "cyclic" is a document JSON.stringify throws
\* on; "error" is a rejection reason.
Null == [t |-> "null", v |-> <<>>]
Doc(n) == [t |-> "doc", v |-> <<n>>]
EmptyDoc == [t |-> "doc", v |-> <<>>]
Arr(ids) == [t |-> "array", v |-> ids]
Cyclic == [t |-> "cyclic", v |-> <<>>]
MongoError == [t |-> "error", v |-> <<1>>]
RedisError == [t |-> "error", v |-> <<2>>]
SyntaxError == [t |-> "error", v |-> <<3>>]
TypeError == [t |-> "error", v |-> <<4>>]
NoValue == [t |-> "none", v |-> <<>>]

\* The original exec against a collection holding documents 1..posts.
RealExecutor(d, posts) ==
  IF d.op = "find"
  THEN Arr([i \in 1..(IF d.limit > 0 /\ d.limit < posts THEN d.limit ELSE posts) |-> i])
  ELSE IF posts = 0 THEN Null ELSE Doc(1)

ObjText(n) == "{\"_id\":" \o ToString(n) \o "}"

RECURSIVE JoinDocs(_, _)
JoinDocs(ids, i) ==
  IF i > Len(ids) THEN ""
  ELSE (IF i > 1 THEN "," ELSE "") \o ObjText(ids[i]) \o JoinDocs(ids, i + 1)

Serializable(r) == r.t \in {"null", "doc", "array"}

\* JSON.stringify(result), defined where Serializable(result).
JSONStringify(r) ==
  CASE r.t = "null" -> "null"
    [] r.t = "doc" -> IF r.v = <<>> THEN "{}" ELSE ObjText(r.v[1])
    [] OTHER -> "[" \o JoinDocs(r.v, 1) \o "]"

\* Plain (parsed) JSON values.
PlainNull == [t |-> "pnull", v |-> <<>>]
PlainNumber(n) == [t |-> "pnumber", v |-> <<n>>]
PlainObject(ids) == [t |-> "pobject", v |-> ids]
PlainArray(ids) == [t |-> "parray", v |-> ids]

RECURSIVE SeqsUpTo(_)
SeqsUpTo(n) ==
  IF n = 0 THEN {<<>>}
  ELSE LET S == SeqsUpTo(n - 1)
       IN S \cup {Append(s, n) : s \in {x \in S : Len(x) = n - 1}}

PlainValues ==
  {PlainNull, PlainNumber(DefaultTTL), PlainObject(<<>>)}
  \cup {PlainObject(<<n>>) : n \in 1..(MaxPosts + 1)}
  \cup {PlainArray(s) : s \in SeqsUpTo(MaxPosts + 1)}

PlainText(p) ==
  CASE p.t = "pnull" -> "null"
    [] p.t = "pnumber" -> ToString(p.v[1])
    [] p.t = "pobject" -> IF p.v = <<>> THEN "{}" ELSE ObjText(p.v[1])
    [] OTHER -> "[" \o JoinDocs(p.v, 1) \o "]"

Parsable(text) == \E p \in PlainValues : PlainText(p) = text

\* JSON.parse(text), defined where Parsable(text).
JSONParse(text) == CHOOSE p \in PlainValues : PlainText(p) = text

\* new this.model(obj): a null or empty obj gives a document with no fields.
NewModel(p) == IF p.t = "pobject" /\ p.v # <<>> THEN Doc(p.v[1]) ELSE EmptyDoc

\* Array.isArray(cacheObject) ? cacheObject.map(doc => new this.model(doc))
\*                            : new this.model(cacheObject)
Rehydrate(p) == IF p.t = "parray" THEN Arr(p.v) ELSE NewModel(p)

\* ------------------------------------------------------------ Redis
Nil == ""   \* the reply of HGET for a missing field (null in JavaScript)

HGet(store, h, f) ==
  IF h \in DOMAIN store /\ f \in DOMAIN store[h] THEN store[h][f] ELSE Nil

\* HSET h f1 v1 f2 v2 ... : every pair of arguments is a field and its value.
RECURSIVE HSetPairs(_, _, _)
HSetPairs(fields, args, i) ==
  IF i + 1 > Len(args) THEN fields
  ELSE HSetPairs([f \in DOMAIN fields \cup {args[i]} |->
                    IF f = args[i] THEN args[i + 1] ELSE fields[f]],
                 args, i + 2)

EmptyHash == [f \in {} |-> ""]

HSet(store, h, args) ==
  LET old == IF h \in DOMAIN store THEN store[h] ELSE EmptyHash
  IN [k \in DOMAIN store \cup {h} |->
        IF k = h THEN HSetPairs(old, args, 1) ELSE store[k]]

Del(store, h) == [k \in DOMAIN store \ {h} |-> store[k]]

\* The commands a handler sent, executed in order.  HGET changes nothing.
Command(cmd, h, args) == [cmd |-> cmd, h |-> h, args |-> args]

RECURSIVE Execute(_, _)
Execute(store, cmds) ==
  IF cmds = <<>> THEN store
  ELSE LET c == Head(cmds)
           next == CASE c.cmd = "HSET" -> HSet(store, c.h, c.args)
                     [] c.cmd = "DEL" -> Del(store, c.h)
                     [] OTHER -> store
       IN Execute(next, Tail(cmds))

\* Redis's answer to the DEL among the commands: the number of keys removed.
DelReply(store, cmds) ==
  IF \E i \in 1..Len(cmds) : cmds[i].cmd = "DEL" /\ cmds[i].h \in DOMAIN store
  THEN "1" ELSE "0"

\* The keys the commands delete.
Deleted(cmds) == {cmds[i].h : i \in {j \in 1..Len(cmds) : cmds[j].cmd = "DEL"}}

\* ------------------------------------------------------------- state
VARIABLES
  query,     \* the query objects: descriptor, annotation, position in exec
  redis,     \* Redis: hash key -> (field -> value)
  expires,   \* Redis: hash key -> time at which the key expires
  posts,     \* MongoDB: number of documents in the collection
  request,   \* the write requests passing through clearCacheByUserId
  now,       \* the clock, in seconds
  populated  \* history: the <<hash key, fingerprint>> a miss has populated
             \* and no DEL or expiry has removed since

vars == <<query, redis, expires, posts, request, now, populated>>

NoOutcome == [how |-> "pending", val |-> NoValue]
Resolved(v) == [how |-> "resolved", val |-> v]
Rejected(v) == [how |-> "rejected", val |-> v]

NoReply == [st |-> "none", val |-> Nil]
Reply(v) == [st |-> "ok", val |-> v]
ErrorReply == [st |-> "error", val |-> Nil]

\* A request: del is Redis's answer to the DEL of clearCache ("none": no DEL
\* was sent), cleared the number of clearCache calls made for it.
\* A query object as the model builder returns it: no useCache, no hashKey.
\* reply: Redis's answer to the HGET; fetched: what the original exec
\* settled with; stored: Redis's answer to the HSET; outcome: what the
\* patched exec settled with; expectHit: the pair was populated when exec
\* was called.
NewQuery(d) ==
  [pc |-> "built", d |-> d, useCache |-> FALSE, hashKey |-> "",
   reply |-> NoReply, fetched |-> NoValue, stored |-> "none",
   outcome |-> NoOutcome, expectHit |-> FALSE]

IdleQuery == [NewQuery(CHOOSE d \in Descriptors : TRUE) EXCEPT !.pc = "idle"]

IdleRequest ==
  [pc |-> "idle", user |-> Str("u1"), statusCode |-> 200,
   listeners |-> <<>>, cleared |-> 0, del |-> "none"]

Init ==
  /\ query = [q \in QueryIds |-> IdleQuery]
  /\ redis = [h \in {} |-> EmptyHash]
  /\ expires = [h \in {} |-> 0]
  /\ posts = 0
  /\ request = [r \in RequestIds |-> IdleRequest]
  /\ now = 0
  /\ populated = {}

\* ------------------------------------------------- services/cache.js
\* Query.prototype.cache = function cache(options = {}) { ... }
cache(qry, key) ==
  [qry EXCEPT !.useCache = TRUE,
              !.hashKey = JSONStringifyValue(KeyOrEmpty(key))]

\* overrideExec without the  if (!this.useCache)  line.
overrideExecAlwaysCache(qry) == [qry EXCEPT !.pc = "hget"]

\* overrideExec up to its first await: the query afterwards; with useCache
\* it has sent  HGET hashKey key  and awaits the reply.
overrideExec(qry) ==
  IF ~qry.useCache THEN [qry EXCEPT !.pc = "direct"]
  ELSE [qry EXCEPT !.pc = "hget"]

\* The field overrideExec looks up and stores under.
LookupField(qry) == Fingerprint(qry.d)

\* overrideExec after  await client.hget(...)  resolved with cacheValue.
AfterHget(qry, cacheValue) ==
  IF cacheValue # Nil
  THEN IF Parsable(cacheValue)
       THEN [qry EXCEPT !.pc = "done",
                        !.outcome = Resolved(Rehydrate(JSONParse(cacheValue)))]
       ELSE [qry EXCEPT !.pc = "done", !.outcome = Resolved(SyntaxError)]
  ELSE [qry EXCEPT !.pc = "exec"]

\* overrideExec after  await client.hget(...)  rejected: catch, return error.
AfterHgetError(qry) == [qry EXCEPT !.pc = "done", !.outcome = Resolved(RedisError)]

\* AfterExec storing under the filter alone, the collection left out.
AfterExecWrongField(qry) ==
  IF qry.fetched.t = "error" \/ ~Serializable(qry.fetched)
  THEN [qry |-> [qry EXCEPT !.pc = "done", !.outcome = Resolved(qry.fetched)],
        cmds |-> <<>>]
  ELSE [qry |-> [qry EXCEPT !.pc = "done", !.outcome = Resolved(qry.fetched)],
        cmds |-> <<Command("HSET", qry.hashKey,
                           <<JSONStringifyObject(qry.d.filter),
                             JSONStringify(qry.fetched),
                             "EX", ToString(DefaultTTL)>>)>>]

\* overrideExec after  await exec.apply(this, params)  settled with
\* qry.fetched: [qry, cmds] is the query afterwards and the commands sent.
AfterExec(qry) ==
  IF qry.fetched.t = "error"
  THEN [qry |-> [qry EXCEPT !.pc = "done", !.outcome = Resolved(qry.fetched)],
        cmds |-> <<>>]
  ELSE IF ~Serializable(qry.fetched)
  THEN [qry |-> [qry EXCEPT !.pc = "done", !.outcome = Resolved(TypeError)],
        cmds |-> <<>>]
  ELSE [qry |-> [qry EXCEPT !.pc = "done", !.outcome = Resolved(qry.fetched)],
        cmds |-> <<Command("HSET", qry.hashKey,
                           <<LookupField(qry), JSONStringify(qry.fetched),
                             "EX", ToString(DefaultTTL)>>)>>]

\* The promise of the original exec, returned as it is when !this.useCache.
AfterDirect(qry) ==
  [qry EXCEPT !.pc = "done",
              !.outcome = IF qry.fetched.t = "error" THEN Rejected(qry.fetched)
                          ELSE Resolved(qry.fetched)]

\* clearCache without JSON.stringify: client.del(hashKey).
clearCacheRawKey(hashKey) == <<Command("DEL", hashKey.s, <<>>)>>

\* clearCache(hashKey) { client.del(JSON.stringify(hashKey)); }
clearCache(hashKey) == <<Command("DEL", JSONStringifyValue(hashKey), <<>>)>>

\* What the original exec can settle with.
ExecOutcomes(d) == {RealExecutor(d, posts), Cyclic, MongoError}

\* A route builds a query, annotates it or not, and awaits it.  ok: Redis
\* answers the HGET (otherwise the command fails).
Run(q, d, annotate, key, ok) ==
  /\ query[q].pc \in {"idle", "done"}
  /\ LET built == IF annotate THEN cache(NewQuery(d), key) ELSE NewQuery(d)
         started == overrideExec(built)
         f == LookupField(started)
     IN IF started.pc = "hget"
        THEN query' = [query EXCEPT ![q] =
               [started EXCEPT
                  !.reply = IF ok THEN Reply(HGet(redis, started.hashKey, f))
                            ELSE ErrorReply,
                  !.expectHit = <<started.hashKey, f>> \in populated]]
        ELSE ok /\ query' = [query EXCEPT ![q] = started]
  /\ UNCHANGED <<redis, expires, posts, request, now, populated>>

\* The reply of the HGET arrives: overrideExec goes on.
HgetReply(q) ==
  /\ query[q].pc = "hget"
  /\ query' = [query EXCEPT ![q] =
       IF query[q].reply.st = "ok" THEN AfterHget(query[q], query[q].reply.val)
       ELSE AfterHgetError(query[q])]
  /\ UNCHANGED <<redis, expires, posts, request, now, populated>>

\* MongoDB runs the query of a cached exec that missed.
MongoExec(q, r) ==
  /\ query[q].pc = "exec"
  /\ r \in ExecOutcomes(query[q].d)
  /\ query' = [query EXCEPT ![q].pc = "fetched", ![q].fetched = r]
  /\ UNCHANGED <<redis, expires, posts, request, now, populated>>

\* Its answer arrives: the rest of overrideExec runs.  ok: Redis executes
\* the HSET (otherwise the command fails and changes nothing).
MongoReply(q, ok) ==
  /\ query[q].pc = "fetched"
  /\ LET after == AfterExec(query[q])
         sent == after.cmds # <<>>
     IN /\ ~sent => ok
        /\ query' = [query EXCEPT ![q] =
             [after.qry EXCEPT !.stored = IF ~sent THEN "none"
                                          ELSE IF ok THEN "ok" ELSE "failed"]]
        /\ redis' = IF ok THEN Execute(redis, after.cmds) ELSE redis
        /\ populated' = IF sent /\ ok
                        THEN populated \cup {<<query[q].hashKey, Fingerprint(query[q].d)>>}
                        ELSE populated
  /\ UNCHANGED <<expires, posts, request, now>>

\* MongoDB runs and answers the query of an exec without useCache.
DirectReply(q, r) ==
  /\ query[q].pc = "direct"
  /\ r \in ExecOutcomes(query[q].d)
  /\ query' = [query EXCEPT ![q] = AfterDirect([query[q] EXCEPT !.fetched = r])]
  /\ UNCHANGED <<redis, expires, posts, request, now, populated>>

\* Time passes; Redis drops the keys whose expiry time has come.
Expired(t) == {h \in DOMAIN expires : expires[h] <= t}

Tick ==
  /\ now < MaxTime
  /\ now' = now + DefaultTTL
  /\ redis' = [h \in DOMAIN redis \ Expired(now') |-> redis[h]]
  /\ expires' = [h \in DOMAIN expires \ Expired(now') |-> expires[h]]
  /\ populated' = {e \in populated : e[1] \notin Expired(now')}
  /\ UNCHANGED <<query, posts, request>>

\* ------------------------------------------- middlewares/clearCache.js
\* res.removeListener('finish', l) removes the instance of l added last.
\* afterResponse: [listeners, cmds, calls] is the response's 'finish'
\* listeners afterwards, the commands sent and the clearCache calls made.
RemoveListener(listeners, l) ==
  LET at == {i \in 1..Len(listeners) : listeners[i] = l}
  IN IF at = {} THEN listeners
     ELSE LET last == CHOOSE i \in at : \A j \in at : j <= i
          IN SubSeq(listeners, 1, last - 1) \o SubSeq(listeners, last + 1, Len(listeners))

\* afterResponse without the status check.
afterResponseAnyStatus(req, listeners) ==
  [listeners |-> RemoveListener(listeners, "afterResponse"),
   cmds |-> <<Command("DEL", JSONStringifyValue(req.user), <<>>)>>, calls |-> 1]

afterResponse(req, listeners) ==
  LET removed == RemoveListener(listeners, "afterResponse")
  IN IF req.statusCode < FailureStatus
     THEN [listeners |-> removed, cmds |-> clearCache(req.user), calls |-> 1]
     ELSE [listeners |-> removed, cmds |-> <<>>, calls |-> 0]

\* res.emit('finish'): every listener registered when the event fires runs
\* once, in order of registration.
RECURSIVE Emit(_, _, _, _)
Emit(req, snapshot, i, acc) ==
  IF i > Len(snapshot) THEN acc
  ELSE IF snapshot[i] = "afterResponse"
  THEN LET a == afterResponse(req, acc.listeners)
       IN Emit(req, snapshot, i + 1,
               [listeners |-> a.listeners, cmds |-> acc.cmds \o a.cmds,
                calls |-> acc.calls + a.calls])
  ELSE Emit(req, snapshot, i + 1, acc)

\* clearCacheByUserId(req, res, next): res.on('finish', afterResponse); next()
\* others: the 'finish' listeners earlier middleware put on the response.
\* [req, cmds] is the request afterwards and the commands sent.
\* Register adding the listener twice.
RegisterTwice(user, others) ==
  [req |-> [pc |-> "handler", user |-> user, statusCode |-> 200,
            listeners |-> [i \in 1..others |-> "other"]
                          \o <<"afterResponse", "afterResponse">>,
            cleared |-> 0, del |-> "none"],
   cmds |-> <<>>]

\* Register clearing the cache at once, before next().
RegisterClearFirst(user, others) ==
  [req |-> [pc |-> "handler", user |-> user, statusCode |-> 200,
            listeners |-> [i \in 1..others |-> "other"] \o <<"afterResponse">>,
            cleared |-> 0, del |-> "none"],
   cmds |-> <<Command("DEL", JSONStringifyValue(user), <<>>)>>]

Register(user, others) ==
  [req |-> [pc |-> "handler", user |-> user, statusCode |-> 200,
            listeners |-> [i \in 1..others |-> "other"] \o <<"afterResponse">>,
            cleared |-> 0, del |-> "none"],
   cmds |-> <<>>]

clearCacheByUserId(r, user, others) ==
  /\ request[r].pc \in {"idle", "finished", "aborted"}
  /\ LET reg == Register(user, others)
     IN /\ request' = [request EXCEPT ![r] =
              [reg.req EXCEPT !.cleared = Len(reg.cmds),
                              !.del = IF reg.cmds = <<>> THEN "none"
                                      ELSE DelReply(redis, reg.cmds)]]
        /\ redis' = Execute(redis, reg.cmds)
        /\ expires' = [h \in DOMAIN expires \ Deleted(reg.cmds) |-> expires[h]]
        /\ populated' = {e \in populated : e[1] \notin Deleted(reg.cmds)}
  /\ UNCHANGED <<query, posts, now>>

Statuses == {200, 399, 400}

\* The route handler writes (or fails to) and sets the status of the response.
RouteHandler(r, status, insert) ==
  /\ request[r].pc = "handler"
  /\ insert => (status < FailureStatus /\ posts < MaxPosts)
  /\ posts' = IF insert THEN posts + 1 ELSE posts
  /\ request' = [request EXCEPT ![r].pc = "responding", ![r].statusCode = status]
  /\ UNCHANGED <<query, redis, expires, now, populated>>

\* The response has been handed to the network: 'finish' fires.  ok: Redis
\* executes the DEL (otherwise the command fails and changes nothing).
Finish(r, ok) ==
  /\ request[r].pc = "responding"
  /\ LET e == Emit(request[r], request[r].listeners, 1,
                   [listeners |-> request[r].listeners, cmds |-> <<>>, calls |-> 0])
         sent == e.cmds # <<>>
     IN /\ ~sent => ok
        /\ request' = [request EXCEPT
             ![r].pc = "finished",
             ![r].listeners = e.listeners,
             ![r].cleared = @ + e.calls,
             ![r].del = IF ~sent THEN "none"
                        ELSE IF ok THEN DelReply(redis, e.cmds) ELSE "error"]
        /\ redis' = IF ok THEN Execute(redis, e.cmds) ELSE redis
        /\ expires' = IF ok THEN [h \in DOMAIN expires \ Deleted(e.cmds) |-> expires[h]]
                      ELSE expires
        /\ populated' = IF ok THEN {p \in populated : p[1] \notin Deleted(e.cmds)}
                        ELSE populated
  /\ UNCHANGED <<query, posts, now>>

\* The connection closes before the response finished: 'close' without 'finish'.
Abort(r) ==
  /\ request[r].pc \in {"handler", "responding"}
  /\ request' = [request EXCEPT ![r].pc = "aborted"]
  /\ UNCHANGED <<query, redis, expires, posts, now, populated>>

\* ----------------------------------------------------- specifications
\* The read path: two queries at a time, every descriptor, every outcome of
\* MongoDB and Redis, and the writes of the one user whose cache they use.
Reader == Str("u1")

Next ==
  \/ \E q \in QueryIds, d \in Descriptors, annotate \in BOOLEAN, ok \in BOOLEAN :
       Run(q, d, annotate, Reader, ok)
  \/ \E q \in QueryIds : HgetReply(q)
  \/ \E q \in QueryIds : \E r \in ExecOutcomes(query[q].d) : MongoExec(q, r)
  \/ \E q \in QueryIds, ok \in BOOLEAN : MongoReply(q, ok)
  \/ \E q \in QueryIds : \E r \in ExecOutcomes(query[q].d) : DirectReply(q, r)
  \/ \E r \in RequestIds : clearCacheByUserId(r, Reader, 0)
  \/ \E r \in RequestIds, insert \in BOOLEAN : RouteHandler(r, 200, insert)
  \/ \E r \in RequestIds : Finish(r, TRUE)

Spec == Init /\ [][Next]_vars

\* The write path: one query at a time with the find descriptor, every user,
\* every status and listener count, aborted requests, and the clock.
FindBlogs == [op |-> "find", filter |-> FilterU1, coll |-> "blogs", limit |-> 0]

NextWrite ==
  \/ \E key \in KeyVals, ok \in BOOLEAN : Run(1, FindBlogs, TRUE, key, ok)
  \/ HgetReply(1)
  \/ MongoExec(1, RealExecutor(query[1].d, posts))
  \/ \E ok \in BOOLEAN : MongoReply(1, ok)
  \/ Tick
  \/ \E r \in RequestIds, user \in Users, others \in 0..MaxListeners :
       clearCacheByUserId(r, user, others)
  \/ \E r \in RequestIds, status \in Statuses, insert \in BOOLEAN :
       RouteHandler(r, status, insert)
  \/ \E r \in RequestIds, ok \in BOOLEAN : Finish(r, ok)
  \/ \E r \in RequestIds : Abort(r)

SpecWrite == Init /\ [][NextWrite]_vars

\* The keys: two queries and a key value K are given at the start; each query
\* is executed once with .cache({ key: K }) and the write requests are those
\* of the user whose id is K.  The queries have their conditions written in
\* either order, a condition on a field named collection, either of two
\* collections and a limit; K is a user id or a falsy value.
Num(n) == [t |-> "number", s |-> ToString(n)]
AllKeyVals == {Str("u1"), Str(""), Num(0), Undefined}

FilterUserTitle == << <<"_user", "u1">>, <<"title", "t">> >>
FilterTitleUser == << <<"title", "t">>, <<"_user", "u1">> >>
FilterCollection == << <<"collection", "x">> >>
KeyDescriptors ==
  { [op |-> "find", filter |-> FilterUserTitle, coll |-> "blogs", limit |-> 0],
    [op |-> "find", filter |-> FilterTitleUser, coll |-> "blogs", limit |-> 0],
    [op |-> "find", filter |-> FilterUserTitle, coll |-> "blogs", limit |-> 1],
    [op |-> "find", filter |-> FilterCollection, coll |-> "blogs", limit |-> 0],
    [op |-> "find", filter |-> FilterCollection, coll |-> "comments", limit |-> 0] }

InitKeys ==
  /\ query \in [QueryIds -> {[IdleQuery EXCEPT !.d = d] : d \in KeyDescriptors}]
  /\ redis = [h \in {} |-> EmptyHash]
  /\ expires = [h \in {} |-> 0]
  /\ posts = 0
  /\ request \in [RequestIds -> {[IdleRequest EXCEPT !.user = k] : k \in AllKeyVals}]
  /\ now = 0
  /\ populated = {}

NextKeys ==
  \/ \E q \in QueryIds, r \in RequestIds :
       query[q].pc = "idle" /\ Run(q, query[q].d, TRUE, request[r].user, TRUE)
  \/ \E q \in QueryIds : HgetReply(q)
  \/ \E q \in QueryIds : MongoExec(q, RealExecutor(query[q].d, posts))
  \/ \E q \in QueryIds : MongoReply(q, TRUE)
  \/ \E r \in RequestIds : clearCacheByUserId(r, request[r].user, 0)
  \/ \E r \in RequestIds, insert \in BOOLEAN : RouteHandler(r, 200, insert)
  \/ \E r \in RequestIds : Finish(r, TRUE)

SpecKeys == InitKeys /\ [][NextKeys]_vars

\* ------------------------------------------------------------- claims
Cached(q) == query[q].useCache
Done(q) == query[q].pc = "done"

\* The namespace .cache({ key: user }) gives a query.
NamespaceOf(user) == cache(NewQuery(FindBlogs), user).hashKey

\* The 'finish' event of request r fires in this step.
Finishes(r) == request[r].pc = "responding" /\ request'[r].pc = "finished"

\* C1 Idempotent hit: a cached exec called when its <<namespace, fingerprint>>
\* has been populated by a miss, and neither deleted nor expired since, never
\* invokes the original exec, and when Redis answers its lookup it is
\* served from the cache.
C1_IdempotentHit ==
  \A q \in QueryIds :
    query[q].expectHit =>
      /\ query[q].pc \notin {"exec", "fetched"}
      /\ query[q].fetched = NoValue
      /\ (Done(q) /\ query[q].reply.st = "ok") =>
           /\ query[q].reply.val # Nil
           /\ query[q].outcome.how = "resolved"
           /\ query[q].outcome.val.t \in {"doc", "array"}

C1_Witness ==
  \E q \in QueryIds :
    /\ query[q].expectHit /\ Done(q) /\ query[q].reply.st = "ok"
    /\ query[q].outcome.val.t = "array"

\* C2 Scoped invalidation: when the DEL of clearCache(N) has been executed,
\* no field is left under the namespace of N, and every other namespace holds
\* exactly the fields and values it held before.
C2_ScopedInvalidation ==
  [][\A r \in RequestIds :
       (Finishes(r) /\ request'[r].del \in {"0", "1"}) =>
         LET N == NamespaceOf(request[r].user)
         IN /\ N \notin DOMAIN redis'
            /\ \A f \in {LookupField(NewQuery(d)) : d \in Descriptors} :
                 HGet(redis', N, f) = Nil
            /\ \A M \in DOMAIN redis \ {N} :
                 M \in DOMAIN redis' /\ redis'[M] = redis[M]]_vars

C2_Witness ==
  \E r \in RequestIds :
    /\ request[r].pc = "finished" /\ request[r].del = "1"
    /\ NamespaceOf(request[r].user) \notin DOMAIN redis
    /\ \E M \in DOMAIN redis : LookupField(NewQuery(FindBlogs)) \in DOMAIN redis[M]

\* C3 TTL expiry (as claimed): once the default TTL has passed with no
\* invalidation, every entry a miss has populated is a miss again.
C3_TTLExpiry ==
  [][now' >= now + DefaultTTL =>
       \A e \in populated : HGet(redis', e[1], e[2]) = Nil]_vars

\* C4 Write-gated invalidation, failure side: when a request finishes with
\* status >= 400, clearCache is not called and Redis is left as it was.
C4_FailureKeepsCache ==
  [][\A r \in RequestIds :
       (Finishes(r) /\ request[r].statusCode >= FailureStatus) =>
         /\ request'[r].cleared = 0
         /\ request'[r].del = "none"
         /\ redis' = redis /\ expires' = expires]_vars

C4_Witness ==
  \E r \in RequestIds :
    /\ request[r].pc = "finished" /\ request[r].statusCode >= FailureStatus
    /\ request[r].cleared = 0
    /\ NamespaceOf(request[r].user) \in DOMAIN redis

\* C5 Write-gated invalidation, success side: a request that finished with
\* status < 400 has had clearCache called exactly once, however many
\* listeners the 'finish' event has; no request has it called twice.
C5_SuccessClearsOnce ==
  \A r \in RequestIds :
    /\ request[r].cleared <= 1
    /\ (request[r].pc = "finished" /\ request[r].statusCode < FailureStatus) =>
         (request[r].cleared = 1 /\ request[r].del # "none")

C5_Witness ==
  \E r \in RequestIds :
    /\ request[r].pc = "finished" /\ request[r].statusCode < FailureStatus
    /\ request[r].cleared = 1
    /\ Len(request[r].listeners) = MaxListeners

\* C6 Invalidation ordering: clearCache has been called only for requests
\* whose 'finish' event has fired: not while the handler runs or the response
\* is being sent, and not for an aborted request.
C6_ClearOnlyAfterFinish ==
  \A r \in RequestIds :
    (request[r].cleared > 0 \/ request[r].del # "none") => request[r].pc = "finished"

C6_Witness ==
  \E r \in RequestIds :
    /\ request[r].pc = "aborted" /\ posts > 0
    /\ request[r].cleared = 0
    /\ NamespaceOf(request[r].user) \in DOMAIN redis

\* A step of query q: it is called, or one of its continuations runs.
Steps(q) == query'[q] # query[q]

\* C7 Opt-in caching: an exec without useCache settles exactly as the original
\* exec did (resolved with its result, or rejected with its error), sends no
\* HGET and no HSET, and none of its steps changes Redis.
C7_UncachedTransparent ==
  /\ [](\A q \in QueryIds :
          (~Cached(q) /\ query[q].pc \in {"direct", "done"}) =>
            /\ query[q].reply = NoReply /\ query[q].stored = "none"
            /\ Done(q) =>
                 query[q].outcome =
                   IF query[q].fetched.t = "error" THEN Rejected(query[q].fetched)
                   ELSE Resolved(query[q].fetched))
  /\ [][\A q \in QueryIds :
          (Steps(q) /\ ~query'[q].useCache) =>
            (redis' = redis /\ expires' = expires)]_vars

C7_Witness ==
  \E q \in QueryIds :
    /\ ~Cached(q) /\ Done(q)
    /\ query[q].outcome = Resolved(Arr(<<1>>))
    /\ redis # <<>>

\* C8 Execution failure (as claimed): when the original exec of a cached exec
\* that missed fails, the patched exec rejects with the same error and
\* nothing is stored.
C8_ExecFailurePropagates ==
  \A q \in QueryIds :
    (Cached(q) /\ Done(q) /\ query[q].fetched.t = "error") =>
      (query[q].outcome = Rejected(query[q].fetched) /\ query[q].stored = "none")

\* C9 Best-effort read path (as claimed): when the lookup fails, the original
\* exec is invoked and the caller gets its result, never the cache's error.
C9_LookupFailureIsMiss ==
  \A q \in QueryIds :
    (Cached(q) /\ Done(q) /\ query[q].reply.st = "error") =>
      /\ query[q].fetched # NoValue
      /\ query[q].outcome.val = query[q].fetched

\* C10 Best-effort write path (as claimed): when the original exec succeeded,
\* the patched exec resolves with its result, whether or not the result could
\* be serialized and stored.
C10_StoreFailureKeepsResult ==
  \A q \in QueryIds :
    (Cached(q) /\ Done(q) /\ query[q].fetched.t \notin {"none", "error"}) =>
      query[q].outcome = Resolved(query[q].fetched)

\* The predicates of a query, whatever the order they were written in.
Predicates(d) == {d.filter[i] : i \in 1..Len(d.filter)}
SameContent(d1, d2) == Predicates(d1) = Predicates(d2) /\ d1.coll = d2.coll

\* The query has been executed: its fingerprint has been computed.
Executed(q) == query[q].pc # "idle"

\* C11 Fingerprint determinism (as claimed): two executed queries with the
\* same predicates and the same collection, whatever the order their
\* predicates were written in, look up the same field.
C11_FingerprintDeterminism ==
  \A q1, q2 \in QueryIds :
    (Executed(q1) /\ Executed(q2) /\ SameContent(query[q1].d, query[q2].d)) =>
      LookupField(query[q1]) = LookupField(query[q2])

\* C12 Fingerprint isolation: two executed queries with identical predicates
\* on different collections look up different fields, also when the
\* predicates have a field named collection, and an entry one of them
\* populated is not the entry the other populated.
C12_FingerprintIsolation ==
  \A q1, q2 \in QueryIds :
    (/\ Executed(q1) /\ Executed(q2)
     /\ query[q1].d.filter = query[q2].d.filter
     /\ query[q1].d.coll # query[q2].d.coll) =>
      /\ LookupField(query[q1]) # LookupField(query[q2])
      /\ ~(query[q1].stored = "ok" /\ query[q2].reply.st = "ok"
            /\ query[q2].reply.val # Nil)

C12_Witness ==
  \E q1, q2 \in QueryIds :
    /\ query[q1].d.filter = FilterCollection /\ query[q2].d.filter = FilterCollection
    /\ query[q1].d.coll # query[q2].d.coll
    /\ Done(q1) /\ Done(q2)
    /\ query[q1].stored = "ok" /\ query[q2].stored = "ok"
    /\ query[q1].hashKey = query[q2].hashKey
    /\ \A q \in {q1, q2} : HGet(redis, query[q].hashKey, LookupField(query[q])) # Nil

\* The same query: the same predicates, options and collection.
SameQuery(d1, d2) == SameContent(d1, d2) /\ d1.limit = d2.limit

\* The exec of query q was served from the cache.
Hit(q) == Done(q) /\ query[q].reply.st = "ok" /\ query[q].reply.val # Nil

\* C13 No cross-query hits (as claimed): each query being executed once, a
\* query served from the cache is served from an entry that the same query
\* (same predicates, options and collection) populated in its namespace.
C13_NoCrossQueryHit ==
  \A q \in QueryIds :
    Hit(q) =>
      \E p \in QueryIds \ {q} :
        /\ query[p].stored = "ok"
        /\ query[p].hashKey = query[q].hashKey
        /\ SameQuery(query[p].d, query[q].d)

\* C14 Hit/miss result equivalence (as claimed): when a query is served from
\* the entry that a miss of the same query populated, the hit returns what
\* that miss returned: a record, a sequence of records, an empty sequence
\* or null.
C14_HitEqualsMiss ==
  \A p, q \in QueryIds :
    (/\ p # q /\ Done(p) /\ query[p].stored = "ok" /\ Hit(q)
     /\ query[p].d = query[q].d /\ query[p].hashKey = query[q].hashKey
     /\ query[q].reply.val = JSONStringify(query[p].fetched)) =>
      query[q].outcome = query[p].outcome

\* The entry is in the namespace of the user of request r, whose invalidation
\* Redis has executed, and holds something else than what the query now
\* gives: it was populated after the invalidation with what was read before
\* the write.
StaleAfterInvalidation(r, e) ==
  /\ request[r].pc = "finished" /\ request[r].del \in {"0", "1"}
  /\ e[1] = NamespaceOf(request[r].user)
  /\ HGet(redis, e[1], e[2]) # Nil
  /\ HGet(redis, e[1], e[2]) # JSONStringify(RealExecutor(FindBlogs, posts))

\* C15 Bounded staleness (as claimed): an entry populated with pre-write data
\* after the write's invalidation does not stay a hit: once the default TTL
\* has passed with no further write or invalidation, its lookup is a miss.
C15_StaleEntryExpires ==
  [][now' >= now + DefaultTTL =>
       \A r \in RequestIds : \A e \in populated :
         StaleAfterInvalidation(r, e) => HGet(redis', e[1], e[2]) = Nil]_vars

\* The texts the original exec's results for fingerprint f serialize to.
PayloadsOf(f) ==
  {JSONStringify(RealExecutor(d, n)) : d \in {c \in Descriptors : Fingerprint(c) = f},
                                       n \in 0..MaxPosts}

\* C16 Keyspace layout (as claimed): every field of every namespace is the
\* fingerprint of a query and its value is the serialization of a result of
\* the original exec for a query with that fingerprint.
C16_KeyspaceLayout ==
  \A h \in DOMAIN redis : \A f \in DOMAIN redis[h] :
    /\ \E d \in Descriptors : f = Fingerprint(d)
    /\ redis[h][f] \in PayloadsOf(f)

\* C17 Namespace key agreement (as claimed): the queries being cached with
\* the key K of the user who writes, whatever K is, once Redis has executed
\* the invalidation for K no namespace of an executed query is left.
C17_NamespaceKeyAgreement ==
  [][\A r \in RequestIds :
       (Finishes(r) /\ request'[r].del \in {"0", "1"}) =>
         \A q \in QueryIds :
           (Cached(q) /\ Executed(q)) => query[q].hashKey \notin DOMAIN redis']_vars

====
